---------------------------- MODULE Spec2Model ----------------------------
(***************************************************************************)
(* A model of two rule-resolution pieces of the pf2e system:               *)
(*                                                                         *)
(*   - src/src/module/system/check-degree-of-success.ts:                   *)
(*     getDegreeOfSuccess and getDegreeAdjustment, which turn a rolled     *)
(*     check and a CheckDC into {unadjusted, value, degreeAdjustment};     *)
(*   - src/src/module/system/damage/dialog.ts: DamageModifierDialog, its   *)
(*     click handlers, its stacking pass and its resolve()/close() pair.   *)
(*                                                                         *)
(* calculateDegreeOfSuccess, adjustDegreeOfSuccess, the DegreeOfSuccess    *)
(* and DegreeAdjustment enumerations ("../degree-of-success") and          *)
(* applyStackingRules, ModifierPF2e, DamageDicePF2e ("@actor/modifiers")   *)
(* are imported by these files but are not part of the sources at hand;    *)
(* they are modelled from the written specification and marked so.         *)
(***************************************************************************)
EXTENDS Integers, Sequences, FiniteSets

VARIABLES
    roll,        \* the Roll handed to getDegreeOfSuccess: [dieTotal, totalModifier]
    checkDC,     \* the CheckDC handed to it: [value, modifiers]
    result,      \* what getDegreeOfSuccess returned: [called, unadjusted, value, degreeAdjustment]
    modifiers,   \* DamageModifierDialog.formulaData.modifiers
    dice,        \* DamageModifierDialog.formulaData.dice
    isRolled,    \* DamageModifierDialog.isRolled
    phase,       \* the Application's render state: constructed, rendered, closing, closed
    hasResolve,  \* whether #resolve has been set by resolve()
    promise,     \* the promise resolve() returned: none, pending, true, false
    stackingRan, \* history: whether #applyStackingRules has run since construction
    notifications, \* the number of error notifications the handlers have shown
    closeLog     \* history: the cause of each close() since resolve(), in order

checkVars == <<roll, checkDC, result>>
dialogVars == <<modifiers, dice, isRolled, phase, hasResolve, promise, stackingRan,
                notifications, closeLog>>
vars == <<roll, checkDC, result, modifiers, dice, isRolled, phase, hasResolve, promise,
          stackingRan, notifications, closeLog>>

---------------------------------------------------------------------------
(* Bounds of the model.                                                    *)

\* roll.data.totalModifier ranges over -MaxTotalModifier..MaxTotalModifier
MaxTotalModifier == 1
\* checkDC.value ranges over BaseDC..BaseDC + MaxDCSpread
MaxDCSpread == 1

---------------------------------------------------------------------------
(* The degree-of-success enumerations (imported from "../degree-of-success") *)

CRITICAL_FAILURE == 0
FAILURE == 1
SUCCESS == 2
CRITICAL_SUCCESS == 3

DegreeOfSuccess == CRITICAL_FAILURE..CRITICAL_SUCCESS

\* DegreeAdjustment's members, by name; StepOf gives the signed step count.
INCREASE_BY_TWO == "INCREASE_BY_TWO"
INCREASE == "INCREASE"
LOWER == "LOWER"
LOWER_BY_TWO == "LOWER_BY_TWO"

\* JavaScript's undefined: an absent key, a failed lookup, a bare return.
Undefined == "undefined"

DegreeAdjustmentValues == {INCREASE_BY_TWO, INCREASE, LOWER, LOWER_BY_TWO}

StepOf(adjustment) ==
    CASE adjustment = INCREASE_BY_TWO -> 2
      [] adjustment = INCREASE -> 1
      [] adjustment = LOWER -> -1
      [] adjustment = LOWER_BY_TWO -> -2

\* The faces of the check die and the margin by which a total makes a
\* critical result: the ruleset's values, which the imported
\* calculateDegreeOfSuccess holds.
DieFaces == 20
CriticalMargin == 10
\* The difficulty the model's DCs start from.
BaseDC == 10

---------------------------------------------------------------------------
(* check-degree-of-success.ts                                              *)

\* type CheckDCStrings
CheckDCStrings == {"one-degree-better", "one-degree-worse", "two-degrees-better", "two-degrees-worse"}

\* A string the type CheckDCStrings does not admit but data can hold at run time.
Unrecognized == "three-degrees-better"

\* The keys of CheckDCModifiers, in the order getDegreeAdjustment walks them.
DegreeKeys == <<"all", "criticalFailure", "failure", "success", "criticalSuccess">>

KeySet == {DegreeKeys[i] : i \in 1..Len(DegreeKeys)}

\* const PREFIXES
PREFIXES(degree) ==
    CASE degree = "all" -> -1
      [] degree = "criticalFailure" -> CRITICAL_FAILURE
      [] degree = "failure" -> FAILURE
      [] degree = "success" -> SUCCESS
      [] degree = "criticalSuccess" -> CRITICAL_SUCCESS

\* const ADJUSTMENTS, read with a key: a key the object does not hold gives undefined.
ADJUSTMENTS(checkDCString) ==
    CASE checkDCString = "two-degrees-better" -> INCREASE_BY_TWO
      [] checkDCString = "one-degree-better" -> INCREASE
      [] checkDCString = "one-degree-worse" -> LOWER
      [] checkDCString = "two-degrees-worse" -> LOWER_BY_TWO
      [] OTHER -> Undefined

\* The body of getDegreeAdjustment's for loop at key i, and the loop's rest.
RECURSIVE DegreeAdjustmentFrom(_, _, _)
DegreeAdjustmentFrom(i, value, mods) ==
    IF i > Len(DegreeKeys) THEN Undefined
    ELSE LET degree == DegreeKeys[i]
             dcString == mods[degree]
             condition == PREFIXES(degree)
             adjustment == ADJUSTMENTS(dcString)
         IN  IF dcString = Undefined THEN DegreeAdjustmentFrom(i + 1, value, mods)
             ELSE IF /\ ~(value = CRITICAL_SUCCESS /\ adjustment = INCREASE)
                     /\ ~(value = CRITICAL_FAILURE /\ adjustment = LOWER)
                     /\ (condition = PREFIXES("all") \/ value = condition)
                  THEN adjustment
                  ELSE DegreeAdjustmentFrom(i + 1, value, mods)

\* A variant that tries the degree's own key before `all`.
getDegreeAdjustmentOwnKeyFirst(value, mods) ==
    LET own == CHOOSE k \in KeySet : PREFIXES(k) = value
        ownFirst == [k \in KeySet |-> IF k = "all" THEN Undefined ELSE mods[k]]
        first == DegreeAdjustmentFrom(1, value, ownFirst)
    IN  IF mods[own] # Undefined /\ first # Undefined THEN first
        ELSE DegreeAdjustmentFrom(1, value, mods)

\* A variant whose boundary guard also blocks the two-step adjustments.
RECURSIVE DegreeAdjustmentGuardBothFrom(_, _, _)
DegreeAdjustmentGuardBothFrom(i, value, mods) ==
    IF i > Len(DegreeKeys) THEN Undefined
    ELSE LET degree == DegreeKeys[i]
             dcString == mods[degree]
             condition == PREFIXES(degree)
             adjustment == ADJUSTMENTS(dcString)
         IN  IF dcString = Undefined THEN DegreeAdjustmentGuardBothFrom(i + 1, value, mods)
             ELSE IF /\ ~(value = CRITICAL_SUCCESS /\ adjustment \in {INCREASE, INCREASE_BY_TWO})
                     /\ ~(value = CRITICAL_FAILURE /\ adjustment \in {LOWER, LOWER_BY_TWO})
                     /\ (condition = PREFIXES("all") \/ value = condition)
                  THEN adjustment
                  ELSE DegreeAdjustmentGuardBothFrom(i + 1, value, mods)

getDegreeAdjustmentGuardBoth(value, mods) == DegreeAdjustmentGuardBothFrom(1, value, mods)

getDegreeAdjustment(value, mods) == DegreeAdjustmentFrom(1, value, mods)

\* adjustDegreeOfSuccess: the degree shifted by the adjustment's steps, saturating.
Clamp(n, lo, hi) == IF n < lo THEN lo ELSE IF n > hi THEN hi ELSE n

adjustDegreeOfSuccess(adjustment, degree) ==
    IF adjustment \in DegreeAdjustmentValues
    THEN Clamp(degree + StepOf(adjustment), CRITICAL_FAILURE, CRITICAL_SUCCESS)
    ELSE degree

\* calculateDegreeOfSuccess: the total against the DC, then the natural-roll rule.
BasicDegreeOfSuccess(total, dc) ==
    IF total >= dc + CriticalMargin THEN CRITICAL_SUCCESS
    ELSE IF total >= dc THEN SUCCESS
    ELSE IF total <= dc - CriticalMargin THEN CRITICAL_FAILURE
    ELSE FAILURE

calculateDegreeOfSuccess(dieRoll, dc) ==
    LET basic == BasicDegreeOfSuccess(dieRoll.dieValue + dieRoll.modifier, dc)
    IN  IF dieRoll.dieValue = DieFaces THEN adjustDegreeOfSuccess(INCREASE, basic)
        ELSE IF dieRoll.dieValue = 1 THEN adjustDegreeOfSuccess(LOWER, basic)
        ELSE basic

\* A variant that leaves the static modifier out of the die roll.
DieRollOfNoModifier(r) == [dieValue |-> r.dieTotal, modifier |-> 0]

\* const dieRoll: DieRoll = {dieValue: ..., modifier: roll.data.totalModifier ?? 0}
\* (an absent totalModifier is the empty sequence, a present one <<m>>).
DieRollOf(r) ==
    [dieValue |-> r.dieTotal,
     modifier |-> IF r.totalModifier = <<>> THEN 0 ELSE r.totalModifier[1]]

\* checkDC.modifiers ?? {}
NoModifiers == [k \in KeySet |-> Undefined]

\* A variant that reports the adjustment and never applies it.
getDegreeOfSuccessNotApplied(r, dc) ==
    LET unadjusted == calculateDegreeOfSuccess(DieRollOf(r), dc.value)
    IN  [called |-> TRUE, unadjusted |-> unadjusted, value |-> unadjusted,
         degreeAdjustment |-> getDegreeAdjustment(unadjusted, dc.modifiers)]

\* getDegreeOfSuccess
getDegreeOfSuccess(r, dc) ==
    LET dieRoll == DieRollOf(r)
        unadjusted == calculateDegreeOfSuccess(dieRoll, dc.value)
        degreeAdjustment == getDegreeAdjustment(unadjusted, dc.modifiers)
        value == IF degreeAdjustment # Undefined
                 THEN adjustDegreeOfSuccess(degreeAdjustment, unadjusted)
                 ELSE unadjusted
    IN  [called |-> TRUE, unadjusted |-> unadjusted, value |-> value,
         degreeAdjustment |-> degreeAdjustment]

---------------------------------------------------------------------------
(* The check resolver as a state machine: one call of getDegreeOfSuccess   *)
(* on a roll and a CheckDC drawn from the bounded input sets.              *)

DieValues == {1, 2, DieFaces \div 2, DieFaces - 1, DieFaces}

Rolls ==
    [dieTotal : DieValues,
     totalModifier : {<<>>} \cup {<<m>> : m \in -MaxTotalModifier..MaxTotalModifier}]

CheckDCs ==
    [value : BaseDC..(BaseDC + MaxDCSpread),
     modifiers : [KeySet -> CheckDCStrings \cup {Unrecognized, Undefined}]]

NotCalled ==
    [called |-> FALSE, unadjusted |-> FAILURE, value |-> FAILURE,
     degreeAdjustment |-> Undefined]

DialogIdle ==
    /\ modifiers = <<>>
    /\ dice = <<>>
    /\ isRolled = FALSE
    /\ phase = "constructed"
    /\ hasResolve = FALSE
    /\ promise = "none"
    /\ stackingRan = FALSE
    /\ notifications = 0
    /\ closeLog = <<>>

CheckIdle ==
    /\ roll = [dieTotal |-> 1, totalModifier |-> <<>>]
    /\ checkDC = [value |-> BaseDC, modifiers |-> NoModifiers]
    /\ result = NotCalled

InitCheck == CheckIdle /\ DialogIdle

\* A caller resolves one check.
Check ==
    /\ ~result.called
    /\ \E r \in Rolls, dc \in CheckDCs :
          /\ roll' = r
          /\ checkDC' = dc
          /\ result' = getDegreeOfSuccess(r, dc)
    /\ UNCHANGED dialogVars

NextCheck == Check

SpecCheck == InitCheck /\ [][NextCheck]_vars

---------------------------------------------------------------------------
(* damage/dialog.ts: the modifiers and dice of the formula data.           *)

\* At most MaxModifiers modifiers and MaxDice dice in the dialog, at most
\* MaxInitial of the modifiers handed to the constructor, at most
\* MaxNotifications error notifications shown, at most MaxCloses calls of
\* close() logged.
MaxModifiers == 2
MaxInitial == 1
MaxDice == 1
MaxNotifications == 1
MaxCloses == 2

\* MODIFIER_TYPES (imported): the untyped type and two of the typed ones.
MODIFIER_TYPES == {"untyped", "circumstance", "status"}

\* A type the select menu does not offer; String(undefined) without the menu.
InvalidType == "undefined"

\* DamageCategoryUnique | null, as the stacking pass tells them apart:
\* "persistent", and "none" for null.
Categories == {"persistent", "none"}

\* The values a modifier takes in the model: two bonuses and two penalties.
ModifierValues == {-2, -1, 1, 2}

\* A ModifierPF2e, by the fields the dialog and the stacking rules read:
\* modifier (the value), type, category (the damage category), enabled, ignored.
ModifierRecords ==
    [modifier : ModifierValues, type : MODIFIER_TYPES, category : Categories,
     enabled : BOOLEAN, ignored : BOOLEAN]

\* new ModifierPF2e({label, modifier, type, damageType, damageCategory}):
\* enabled and not ignored until the stacking rules say otherwise.
NewModifier(value, type, category) ==
    [modifier |-> value, type |-> type, category |-> category,
     enabled |-> TRUE, ignored |-> FALSE]

\* new DamageDicePF2e({... diceNumber ...}): enabled and not ignored.
NewDice(count) == [diceNumber |-> count, enabled |-> TRUE, ignored |-> FALSE]

---------------------------------------------------------------------------
(* applyStackingRules (imported from @actor/modifiers), from the written   *)
(* specification's section 4.2: one pass over the list in input order,     *)
(* keeping the best modifier met so far of each (kind, type) group.        *)

\* A typed modifier is a penalty when its value is negative, else a bonus.
Kind(m) ==
    IF m.type = "untyped" THEN "untyped"
    ELSE IF m.modifier < 0 THEN "penalty" ELSE "bonus"

Groups == {"bonus", "penalty"} \X MODIFIER_TYPES

GroupOf(m) == <<Kind(m), m.type>>

\* A bonus beats a lower bonus, a penalty a less negative one; a tie keeps
\* the modifier met first.
IsBetter(m, existing) ==
    IF m.modifier < 0 THEN m.modifier < existing.modifier
    ELSE m.modifier > existing.modifier

RECURSIVE StackFrom(_, _, _)
StackFrom(i, ms, best) ==
    IF i > Len(ms) THEN ms
    ELSE LET m == ms[i]
             existing == best[GroupOf(m)]
         IN  IF m.ignored
             THEN StackFrom(i + 1, [ms EXCEPT ![i].enabled = FALSE], best)
             ELSE IF m.type = "untyped"
             THEN StackFrom(i + 1, [ms EXCEPT ![i].enabled = TRUE], best)
             ELSE IF existing = 0
             THEN StackFrom(i + 1, [ms EXCEPT ![i].enabled = TRUE],
                            [best EXCEPT ![GroupOf(m)] = i])
             ELSE IF IsBetter(m, ms[existing])
             THEN StackFrom(i + 1,
                            [ms EXCEPT ![existing].enabled = FALSE, ![i].enabled = TRUE],
                            [best EXCEPT ![GroupOf(m)] = i])
             ELSE StackFrom(i + 1, [ms EXCEPT ![i].enabled = FALSE], best)

applyStackingRules(ms) ==
    StackFrom(1, ms, [g \in Groups \cup {<<"untyped", "untyped">>} |-> 0])

---------------------------------------------------------------------------
(* DamageModifierDialog                                                    *)

\* The two filters of #applyStackingRules.
IsPersistent(m) == m.category = "persistent"
NotPersistent(m) == m.category # "persistent"

Keeps(persistent, m) == IF persistent THEN IsPersistent(m) ELSE NotPersistent(m)

\* The indices, in order, of the modifiers a filter keeps.
RECURSIVE FilterIndices(_, _, _)
FilterIndices(ms, i, persistent) ==
    IF i > Len(ms) THEN <<>>
    ELSE IF Keeps(persistent, ms[i])
    THEN <<i>> \o FilterIndices(ms, i + 1, persistent)
    ELSE FilterIndices(ms, i + 1, persistent)

\* modifiers.filter(...)
Filtered(ms, persistent) ==
    LET idx == FilterIndices(ms, 1, persistent)
    IN  [j \in 1..Len(idx) |-> ms[idx[j]]]

\* applyStackingRules(modifiers.filter(...)): the filtered array holds the
\* same objects, so the flags the rules set show in the dialog's list.
ApplyToFiltered(ms, persistent) ==
    LET idx == FilterIndices(ms, 1, persistent)
        out == applyStackingRules(Filtered(ms, persistent))
    IN  [i \in 1..Len(ms) |->
            IF \E j \in 1..Len(idx) : idx[j] = i
            THEN out[CHOOSE j \in 1..Len(idx) : idx[j] = i]
            ELSE ms[i]]

\* A variant that hands the whole list to the stacking rules at once.
ApplyStackingRulesUnsplit(ms) == applyStackingRules(ms)

\* A variant without the second call: the persistent modifiers are left as they are.
ApplyStackingRulesSkipsPersistent(ms) == ApplyToFiltered(ms, FALSE)

\* A variant whose first call is handed the unfiltered list.
ApplyStackingRulesFirstUnfiltered(ms) == ApplyToFiltered(applyStackingRules(ms), TRUE)

\* #applyStackingRules
ApplyStackingRules(ms) ==
    ApplyToFiltered(ApplyToFiltered(ms, FALSE), TRUE)

\* A variant of the checkbox handler that sets the flag and does not restack.
ModifierCheckboxClickedNoRestack(ms, modIndex, checked) ==
    [ms EXCEPT ![modIndex].ignored = ~checked]

\* The checkbox handler's modifier branch: modifiers[modIndex].ignored =
\* !checkbox.checked, then #applyStackingRules().
ModifierCheckboxClicked(ms, modIndex, checked) ==
    ApplyStackingRules([ms EXCEPT ![modIndex].ignored = ~checked])

\* The checkbox handler's dice branch.
DiceCheckboxClicked(ds, dieIndex, checked) ==
    [ds EXCEPT ![dieIndex].ignored = ~checked, ![dieIndex].enabled = checked]

\* The text of a number input: empty, a numeral, or text that is no number.
NumberTexts(numbers) ==
    {[kind |-> "empty", n |-> 0], [kind |-> "garbage", n |-> 0]}
        \cup {[kind |-> "numeral", n |-> k] : k \in numbers}

\* Number(input.value || 1): 1 for the empty string, NaN for text that is
\* no number.
NumberOrOne(text) ==
    CASE text.kind = "empty" -> [nan |-> FALSE, n |-> 1]
      [] text.kind = "garbage" -> [nan |-> TRUE, n |-> 0]
      [] OTHER -> [nan |-> FALSE, n |-> text.n]

\* The errors the add-modifier handler collects for a value.
ModifierValueErrors(value) ==
    IF value.nan THEN <<"Modifier value must be a number.">>
    ELSE IF value.n = 0 THEN <<"Modifier value must not be zero.">>
    ELSE <<>>

\* The phases in which the rendered element's listeners can run.
Listening == phase \in {"rendered", "closing"}

\* All lists of at most n records of a set.
ListsUpTo(records, n) == UNION {[1..k -> records] : k \in 0..n}

\* The constructor: the formula data as the caller built it, not yet shown.
Constructed(initialModifiers) ==
    /\ modifiers \in initialModifiers
    /\ dice = <<>>
    /\ isRolled = FALSE
    /\ phase = "constructed"
    /\ hasResolve = FALSE
    /\ promise = "none"
    /\ stackingRan = FALSE
    /\ notifications = 0
    /\ closeLog = <<>>

\* resolve(): render the dialog and keep the promise's resolve method.
Resolve ==
    /\ phase = "constructed"
    /\ ~hasResolve
    /\ phase' = "rendered"
    /\ hasResolve' = TRUE
    /\ promise' = "pending"
    /\ UNCHANGED <<modifiers, dice, isRolled, stackingRan, notifications, closeLog>>
    /\ UNCHANGED checkVars

\* this.#resolve?.(this.isRolled): a promise settles once, with the first value.
Settled(p, has, rolled) ==
    IF has /\ p = "pending" THEN (IF rolled THEN "true" ELSE "false") ELSE p

\* close(): settle the promise with isRolled, then close the application
\* (a dialog that was never rendered stays as it is). The log keeps what
\* caused each close of a dialog that resolve() has shown.
CloseWith(cause, rolled) ==
    /\ promise' = Settled(promise, hasResolve, rolled)
    /\ phase' = IF phase = "constructed" THEN phase ELSE "closing"
    /\ closeLog' = IF hasResolve THEN Append(closeLog, cause) ELSE closeLog

\* A variant of the roll button that closes without marking the roll.
RollButtonClickNotMarked ==
    /\ Listening
    /\ Len(closeLog) < MaxCloses
    /\ CloseWith("roll", isRolled)
    /\ UNCHANGED <<modifiers, dice, isRolled, hasResolve, stackingRan, notifications>>
    /\ UNCHANGED checkVars

\* button.roll: this.isRolled = true; this.close()
RollButtonClick ==
    /\ Listening
    /\ Len(closeLog) < MaxCloses
    /\ isRolled' = TRUE
    /\ CloseWith("roll", TRUE)
    /\ UNCHANGED <<modifiers, dice, hasResolve, stackingRan, notifications>>
    /\ UNCHANGED checkVars

\* close() called by anything else: the header's close button, the Escape
\* key, another caller.
Close ==
    /\ Len(closeLog) < MaxCloses
    /\ CloseWith("other", isRolled)
    /\ UNCHANGED <<modifiers, dice, isRolled, hasResolve, stackingRan, notifications>>
    /\ UNCHANGED checkVars

\* A click on a modifier's checkbox, which leaves the box checked or not.
ModifierCheckboxClick ==
    /\ Listening
    /\ \E modIndex \in 1..Len(modifiers), checked \in BOOLEAN :
          modifiers' = ModifierCheckboxClicked(modifiers, modIndex, checked)
    /\ stackingRan' = TRUE
    /\ UNCHANGED <<dice, isRolled, phase, hasResolve, promise, notifications, closeLog>>
    /\ UNCHANGED checkVars

\* A click on a die's checkbox.
DiceCheckboxClick ==
    /\ Listening
    /\ \E dieIndex \in 1..Len(dice), checked \in BOOLEAN :
          dice' = DiceCheckboxClicked(dice, dieIndex, checked)
    /\ UNCHANGED <<modifiers, isRolled, phase, hasResolve, promise, stackingRan,
                   notifications, closeLog>>
    /\ UNCHANGED checkVars

\* A variant of the add-modifier handler that reruns the stacking rules
\* after reporting the errors too.
AddModifierClickRestacksOnError(texts, types, categories) ==
    /\ Listening
    /\ \E type \in types :
          IF type \notin MODIFIER_TYPES
          THEN UNCHANGED <<modifiers, stackingRan, notifications>>
          ELSE \E text \in texts :
                  LET value == NumberOrOne(text)
                      errors == ModifierValueErrors(value)
                  IN  IF Len(errors) > 0
                      THEN /\ notifications < MaxNotifications
                           /\ notifications' = notifications + 1
                           /\ modifiers' = ApplyStackingRules(modifiers)
                           /\ stackingRan' = TRUE
                      ELSE /\ Len(modifiers) < MaxModifiers
                           /\ \E category \in categories :
                                 modifiers' = ApplyStackingRules(
                                     Append(modifiers, NewModifier(value.n, type, category)))
                           /\ stackingRan' = TRUE
                           /\ UNCHANGED notifications
    /\ UNCHANGED <<dice, isRolled, phase, hasResolve, promise, closeLog>>
    /\ UNCHANGED checkVars

\* button.add-modifier, with the value text, the type and the category read
\* from the form. An invalid type throws before anything is changed; a value
\* that is no number or zero is reported and nothing is added; otherwise the
\* new modifier is pushed and the stacking rules run.
AddModifierClick(texts, types, categories) ==
    /\ Listening
    /\ \E type \in types :
          IF type \notin MODIFIER_TYPES
          THEN UNCHANGED <<modifiers, stackingRan, notifications>>
          ELSE \E text \in texts :
                  LET value == NumberOrOne(text)
                      errors == ModifierValueErrors(value)
                  IN  IF Len(errors) > 0
                      THEN /\ notifications < MaxNotifications
                           /\ notifications' = notifications + 1
                           /\ UNCHANGED <<modifiers, stackingRan>>
                      ELSE /\ Len(modifiers) < MaxModifiers
                           /\ \E category \in categories :
                                 modifiers' = ApplyStackingRules(
                                     Append(modifiers, NewModifier(value.n, type, category)))
                           /\ stackingRan' = TRUE
                           /\ UNCHANGED notifications
    /\ UNCHANGED <<dice, isRolled, phase, hasResolve, promise, closeLog>>
    /\ UNCHANGED checkVars

\* button.add-dice, with the count text and the category read from the form.
AddDiceClick(texts, categories) ==
    /\ Listening
    /\ \E text \in texts, category \in categories :
          LET count == NumberOrOne(text)
          IN  IF count.nan \/ count.n < 1 \/ category \notin {"persistent", "precision", "splash", "none"}
              THEN /\ notifications < MaxNotifications
                   /\ notifications' = notifications + 1
                   /\ UNCHANGED dice
              ELSE /\ Len(dice) < MaxDice
                   /\ dice' = Append(dice, NewDice(count.n))
                   /\ UNCHANGED notifications
    /\ UNCHANGED <<modifiers, isRolled, phase, hasResolve, promise, stackingRan, closeLog>>
    /\ UNCHANGED checkVars

---------------------------------------------------------------------------
(* The modifier handlers of the dialog, over every list the constructor    *)
(* can be handed (the flags of the initial modifiers are the caller's) and *)
(* every modifier the add-modifier form accepts.                           *)

InitStacking == CheckIdle /\ Constructed(ListsUpTo(ModifierRecords, MaxInitial))

NextStacking ==
    \/ Resolve
    \/ ModifierCheckboxClick
    \/ AddModifierClick(NumberTexts(ModifierValues) \ {[kind |-> "garbage", n |-> 0]},
                        MODIFIER_TYPES, Categories)

SpecStacking == InitStacking /\ [][NextStacking]_vars

---------------------------------------------------------------------------
(* The add-modifier form alone, over every text, type and category it can  *)
(* be sent with, on lists the constructor was handed with flags of the     *)
(* caller's.                                                               *)

InitialAddRecords ==
    [modifier : {1, 2}, type : {"circumstance"}, category : Categories,
     enabled : BOOLEAN, ignored : BOOLEAN]

InitAddModifier == CheckIdle /\ Constructed(ListsUpTo(InitialAddRecords, MaxInitial))

NextAddModifier ==
    \/ Resolve
    \/ AddModifierClick(NumberTexts(ModifierValues \cup {0}),
                        MODIFIER_TYPES \cup {InvalidType}, Categories)

SpecAddModifier == InitAddModifier /\ [][NextAddModifier]_vars

---------------------------------------------------------------------------
(* The whole dialog, from its construction to its close, over a small set  *)
(* of modifiers.                                                           *)

DialogModifierRecords ==
    [modifier : {1, 2}, type : {"circumstance"}, category : {"none"},
     enabled : BOOLEAN, ignored : BOOLEAN]

Init == CheckIdle /\ Constructed(ListsUpTo(DialogModifierRecords, MaxInitial))

Next ==
    \/ Resolve
    \/ RollButtonClick
    \/ Close
    \/ ModifierCheckboxClick
    \/ DiceCheckboxClick
    \/ AddModifierClick(NumberTexts({0, 2}), {"circumstance", InvalidType}, {"none"})
    \/ AddDiceClick(NumberTexts({0, 1}), {"none", "bleed"})

Spec == Init /\ [][Next]_vars

---------------------------------------------------------------------------
(* Properties of the check resolver, checked under SpecCheck.             *)

\* The priority order the specification gives the selector keys.
Priority == <<"all", "criticalFailure", "failure", "success", "criticalSuccess">>

\* Key k holds a string, the boundary guard does not skip it at degree v,
\* and it is `all` or names v.
GuardSkips(k, v, mods) ==
    \/ v = CRITICAL_SUCCESS /\ mods[k] = "one-degree-better"
    \/ v = CRITICAL_FAILURE /\ mods[k] = "one-degree-worse"

KeyNames(k, v) ==
    \/ k = "all"
    \/ k = "criticalFailure" /\ v = CRITICAL_FAILURE
    \/ k = "failure" /\ v = FAILURE
    \/ k = "success" /\ v = SUCCESS
    \/ k = "criticalSuccess" /\ v = CRITICAL_SUCCESS

Selectable(k, v, mods) ==
    /\ mods[k] # Undefined
    /\ ~GuardSkips(k, v, mods)
    /\ KeyNames(k, v)

FirstSelectable(i, v, mods) ==
    /\ Selectable(Priority[i], v, mods)
    /\ \A j \in 1..(i - 1) : ~Selectable(Priority[j], v, mods)

\* C1: the adjustment getDegreeAdjustment returns is that of the first key, in
\* the order all, criticalFailure, failure, success, criticalSuccess, that is
\* present, not skipped by the boundary guard, and is `all` or equals the
\* unadjusted degree; without such a key it returns none. With `all` and
\* `success` both set at SUCCESS, the adjustment is the one under `all`.
C1_FirstMatchingKeyWins ==
    result.called =>
        LET v == result.unadjusted
            mods == checkDC.modifiers
        IN  /\ \A i \in 1..Len(Priority) :
                  FirstSelectable(i, v, mods)
                      => result.degreeAdjustment = ADJUSTMENTS(mods[Priority[i]])
            /\ (\A i \in 1..Len(Priority) : ~Selectable(Priority[i], v, mods))
                  => result.degreeAdjustment = Undefined
            /\ (v = SUCCESS /\ mods["all"] # Undefined /\ mods["success"] # Undefined)
                  => result.degreeAdjustment = ADJUSTMENTS(mods["all"])

C1_Witness ==
    /\ result.called
    /\ result.unadjusted = SUCCESS
    /\ checkDC.modifiers["all"] = "one-degree-worse"
    /\ checkDC.modifiers["success"] = "one-degree-better"
    /\ result.degreeAdjustment = LOWER
    /\ result.value = FAILURE

\* C2: the boundary guard blocks only the single steps. At CRITICAL_SUCCESS
\* the applied adjustment is never INCREASE, at CRITICAL_FAILURE never LOWER;
\* a two-degrees-better key at CRITICAL_SUCCESS (a two-degrees-worse key at
\* CRITICAL_FAILURE) that matches and has no selectable key before it is
\* selected and reported, and the final degree stays at that boundary.
C2_GuardBlocksSingleStepsOnly ==
    result.called =>
        LET v == result.unadjusted
            mods == checkDC.modifiers
        IN  /\ v = CRITICAL_SUCCESS => result.degreeAdjustment # INCREASE
            /\ v = CRITICAL_FAILURE => result.degreeAdjustment # LOWER
            /\ \A i \in 1..Len(Priority) :
                  LET k == Priority[i]
                  IN  /\ KeyNames(k, v)
                      /\ \A j \in 1..(i - 1) : ~Selectable(Priority[j], v, mods)
                      /\ \/ v = CRITICAL_SUCCESS /\ mods[k] = "two-degrees-better"
                         \/ v = CRITICAL_FAILURE /\ mods[k] = "two-degrees-worse"
                      => /\ result.degreeAdjustment =
                               (IF v = CRITICAL_SUCCESS THEN INCREASE_BY_TWO ELSE LOWER_BY_TWO)
                         /\ result.value = v

C2_Witness ==
    /\ result.called
    /\ result.unadjusted = CRITICAL_SUCCESS
    /\ checkDC.modifiers["all"] = "one-degree-better"
    /\ checkDC.modifiers["criticalSuccess"] = "two-degrees-better"
    /\ result.degreeAdjustment = INCREASE_BY_TWO
    /\ result.value = CRITICAL_SUCCESS

\* The signed step count of a reported adjustment, as the specification lists them.
Steps(adjustment) ==
    CASE adjustment = "INCREASE_BY_TWO" -> 2
      [] adjustment = "INCREASE" -> 1
      [] adjustment = "LOWER" -> -1
      [] adjustment = "LOWER_BY_TWO" -> -2
      [] OTHER -> 0

Saturate(n) == IF n < 0 THEN 0 ELSE IF n > 3 THEN 3 ELSE n

\* C3: the final degree lies within CRITICAL_FAILURE..CRITICAL_SUCCESS and is
\* the unadjusted degree shifted by the selected adjustment's step count,
\* clamped at the bounds; with no adjustment selected it is the unadjusted
\* degree and the reported adjustment is none.
C3_FinalIsSaturatedShift ==
    result.called =>
        /\ result.unadjusted \in 0..3
        /\ result.value \in 0..3
        /\ result.degreeAdjustment \in DegreeAdjustmentValues \cup {Undefined}
        /\ result.value = Saturate(result.unadjusted + Steps(result.degreeAdjustment))
        /\ result.degreeAdjustment = Undefined => result.value = result.unadjusted
        /\ result.degreeAdjustment = getDegreeAdjustment(result.unadjusted, checkDC.modifiers)

C3_Witness ==
    /\ result.called
    /\ result.unadjusted = SUCCESS
    /\ result.degreeAdjustment = INCREASE_BY_TWO
    /\ result.value = CRITICAL_SUCCESS

\* C4: with an adjustment-direction string that is none of the four under a
\* selector key, resolution rejects the configuration: it never returns a result.
C4_UnrecognizedStringRejected ==
    result.called => \A k \in KeySet : checkDC.modifiers[k] \in CheckDCStrings \cup {Undefined}

\* The total the specification compares against the DC.
TotalOf(r) == r.dieTotal + (IF r.totalModifier = <<>> THEN 0 ELSE r.totalModifier[1])

---------------------------------------------------------------------------
(* Properties of the dialog's stacking pass, checked under SpecStacking.   *)

\* The typed stacking groups: bonus or penalty, of a type other than untyped.
TypedGroups == {"bonus", "penalty"} \X (MODIFIER_TYPES \ {"untyped"})

\* The positions of the members of group g in one partition of the list.
Members(ms, persistent, g) ==
    {i \in 1..Len(ms) :
        /\ (ms[i].category = "persistent") = persistent
        /\ ms[i].type = g[2]
        /\ (ms[i].modifier < 0) = (g[1] = "penalty")}

\* Member i is at least as good as member j of the same group.
AsGoodAs(ms, g, i, j) ==
    IF g[1] = "penalty" THEN ms[i].modifier <= ms[j].modifier
    ELSE ms[i].modifier >= ms[j].modifier

\* In every typed group of either partition with a member that is not
\* ignored, exactly one member is enabled, it is not ignored, and no member
\* that is not ignored is better.
OneBestEnabledPerGroup(ms) ==
    \A persistent \in BOOLEAN, g \in TypedGroups :
        LET members == Members(ms, persistent, g)
            live == {i \in members : ~ms[i].ignored}
            on == {i \in members : ms[i].enabled}
        IN  live # {} =>
                /\ Cardinality(on) = 1
                /\ \A i \in on : i \in live /\ \A j \in live : AsGoodAs(ms, g, i, j)

\* C6: after the stacking pass, every (kind, subtype) group of bonuses or
\* penalties of a partition that has a member not ignored has exactly one
\* enabled member, the best of those not ignored: the highest bonus, the
\* most negative penalty. Groups of different subtype do not disable each
\* other's members.
C6_OneBestEnabledPerGroup ==
    /\ stackingRan => OneBestEnabledPerGroup(modifiers)
    /\ \A persistent \in BOOLEAN :
          OneBestEnabledPerGroup(applyStackingRules(Filtered(modifiers, persistent)))

C6_Witness ==
    /\ stackingRan
    /\ Len(modifiers) = 2
    /\ \A i \in 1..2 : /\ modifiers[i].type = "circumstance"
                       /\ modifiers[i].category = "none"
                       /\ ~modifiers[i].ignored
    /\ modifiers[1].modifier = 1 /\ ~modifiers[1].enabled
    /\ modifiers[2].modifier = 2 /\ modifiers[2].enabled

\* A step changes the ignored flag of no modifier but the one whose checkbox
\* was clicked, and removes none.
IgnoredChangesOnlyByOwnCheckbox ==
    /\ Len(modifiers') >= Len(modifiers)
    /\ \A i \in 1..Len(modifiers) :
          modifiers'[i].ignored # modifiers[i].ignored =>
              /\ Len(modifiers') = Len(modifiers)
              /\ \A j \in 1..Len(modifiers) :
                    j # i => modifiers'[j].ignored = modifiers[j].ignored
              /\ \E checked \in BOOLEAN :
                    modifiers' = ModifierCheckboxClicked(modifiers, i, checked)

\* After the stacking pass an ignored modifier is disabled, and in its group
\* the best member not ignored, if there is one, is the enabled one.
IgnoredIsDisabled(ms) ==
    /\ \A i \in 1..Len(ms) : ms[i].ignored => ~ms[i].enabled
    /\ \A persistent \in BOOLEAN, g \in TypedGroups :
          LET members == Members(ms, persistent, g)
              live == {i \in members : ~ms[i].ignored}
          IN  (live # {} /\ live # members) =>
                  \E i \in live : /\ ms[i].enabled
                                  /\ \A j \in live : AsGoodAs(ms, g, i, j)
                                  /\ \A j \in members \ {i} : ~ms[j].enabled

\* C7: manual ignore is sticky. After every checkbox click or add-modifier
\* action an ignored modifier is disabled and is not its group's winner even
\* when it is the best, the best member not ignored being enabled instead;
\* and no step changes a modifier's ignored flag but a click on that
\* modifier's own checkbox.
C7_ManualIgnoreSticks ==
    /\ [](stackingRan => IgnoredIsDisabled(modifiers))
    /\ [][IgnoredChangesOnlyByOwnCheckbox]_vars

C7_Witness ==
    /\ stackingRan
    /\ Len(modifiers) = 2
    /\ \A i \in 1..2 : /\ modifiers[i].type = "circumstance"
                       /\ modifiers[i].category = "none"
    /\ modifiers[1].modifier = 2 /\ modifiers[1].ignored /\ ~modifiers[1].enabled
    /\ modifiers[2].modifier = 1 /\ ~modifiers[2].ignored /\ modifiers[2].enabled

\* C8: the stacking resolver is idempotent. On each partition of the list,
\* and on the whole list, a second run of the rules leaves the flags of the
\* first; so does a second run of the dialog's pass; and the list the pass
\* has left is a fixed point of the pass and, partition by partition, of the rules.
C8_StackingIdempotent ==
    /\ \A xs \in {modifiers, Filtered(modifiers, TRUE), Filtered(modifiers, FALSE)} :
          applyStackingRules(applyStackingRules(xs)) = applyStackingRules(xs)
    /\ ApplyStackingRules(ApplyStackingRules(modifiers)) = ApplyStackingRules(modifiers)
    /\ stackingRan =>
          /\ ApplyStackingRules(modifiers) = modifiers
          /\ \A persistent \in BOOLEAN :
                applyStackingRules(Filtered(modifiers, persistent))
                    = Filtered(modifiers, persistent)

C8_Witness ==
    /\ stackingRan
    /\ Len(modifiers) = 2
    /\ \A i \in 1..2 : /\ modifiers[i].type = "status"
                       /\ modifiers[i].category = "persistent"
                       /\ ~modifiers[i].ignored
    /\ modifiers[1].modifier = -1 /\ ~modifiers[1].enabled
    /\ modifiers[2].modifier = -2 /\ modifiers[2].enabled
    /\ ApplyStackingRules(modifiers) = modifiers

\* The step is a modifier handler's, on a modifier of partition q: a click on
\* the checkbox of one of its modifiers, or a modifier added to it.
StepInPartition(q) ==
    \/ \E i \in 1..Len(modifiers), checked \in BOOLEAN :
          /\ (modifiers[i].category = "persistent") = q
          /\ modifiers' = ModifierCheckboxClicked(modifiers, i, checked)
    \/ /\ Len(modifiers') = Len(modifiers) + 1
       /\ (modifiers'[Len(modifiers')].category = "persistent") = q

\* The step leaves the modifiers of the partition other than q as they were.
OtherPartitionUnchanged(q) == Filtered(modifiers', ~q) = Filtered(modifiers, ~q)

\* C9, as claimed: a click or an added modifier in one partition leaves the
\* enabled flags of the other partition unchanged, in every step.
C9_OtherPartitionAlwaysUnchanged ==
    [][\A q \in BOOLEAN : StepInPartition(q) => OtherPartitionUnchanged(q)]_vars

\* C9, amended: once the stacking pass has run, the flags of each partition
\* are those the rules give that partition alone, whatever the other holds,
\* so a persistent and a non-persistent modifier of one group do not disable
\* each other; and from then on a click or an added modifier in one
\* partition leaves the enabled flags of the other unchanged.
C9_PartitionsIndependentOnceStacked ==
    /\ [](stackingRan =>
            \A q \in BOOLEAN :
                Filtered(modifiers, q) = applyStackingRules(Filtered(modifiers, q)))
    /\ [][stackingRan =>
            \A q \in BOOLEAN : StepInPartition(q) => OtherPartitionUnchanged(q)]_vars

C9_Witness ==
    /\ stackingRan
    /\ Len(modifiers) = 2
    /\ \A i \in 1..2 : /\ modifiers[i].type = "circumstance"
                       /\ modifiers[i].modifier > 0
                       /\ ~modifiers[i].ignored
                       /\ modifiers[i].enabled
    /\ modifiers[1].category = "persistent"
    /\ modifiers[2].category = "none"

---------------------------------------------------------------------------
(* Properties of the dialog's promise, checked under Spec.                 *)

\* C10: the promise of resolve() settles with true exactly when the first
\* close of the shown dialog came from the roll button, with false when it
\* came from anything else, whatever the handlers did before; and once
\* settled it keeps its value.
C10_PromiseIsRolledAtFirstClose ==
    /\ [](/\ promise = "true" <=> (closeLog # <<>> /\ closeLog[1] = "roll")
          /\ promise = "false" <=> (closeLog # <<>> /\ closeLog[1] = "other")
          /\ promise = "true" => isRolled
          /\ promise \in {"none", "pending"} <=> closeLog = <<>>)
    /\ [][(promise \in {"true", "false"}) => (promise' = promise)]_vars

C10_Witness ==
    /\ promise = "false"
    /\ closeLog = <<"other", "roll">>
    /\ isRolled
    /\ stackingRan
    /\ dice # <<>>

---------------------------------------------------------------------------
(* Properties of the add-modifier handler, checked under SpecAddModifier.  *)

\* Modifier m with its enabled flag left out of account.
ButEnabled(m) == [m EXCEPT !.enabled = TRUE]

\* The step reports an error and changes nothing else of the dialog.
RejectedStep ==
    /\ notifications' = notifications + 1
    /\ modifiers' = modifiers
    /\ stackingRan' = stackingRan
    /\ UNCHANGED <<dice, isRolled, phase, hasResolve, promise, closeLog>>

\* The step appends one modifier, of a value that is a number other than
\* zero, enabled-or-not by the rules and not ignored, keeps the others but
\* for their enabled flags, reports nothing, and leaves each partition as
\* the stacking rules leave it.
AcceptedStep ==
    /\ Len(modifiers') = Len(modifiers) + 1
    /\ notifications' = notifications
    /\ stackingRan'
    /\ modifiers'[Len(modifiers')].modifier # 0
    /\ ~modifiers'[Len(modifiers')].ignored
    /\ \A i \in 1..Len(modifiers) : ButEnabled(modifiers'[i]) = ButEnabled(modifiers[i])
    /\ \A q \in BOOLEAN :
          applyStackingRules(Filtered(modifiers', q)) = Filtered(modifiers', q)

\* C11: a rejected add-modifier action changes nothing. A step of the
\* handler that reports an error (the value is zero or no number) leaves
\* the list of modifiers, with every enabled and ignored flag, as it was and
\* does not rerun the stacking rules; the list changes only by an accepted
\* action, which appends exactly one modifier and reruns the rules on both
\* partitions.
C11_RejectedAddChangesNothing ==
    [][/\ (notifications' # notifications) => RejectedStep
       /\ (modifiers' # modifiers) => AcceptedStep]_vars

C11_Witness ==
    /\ notifications > 0
    /\ ~stackingRan
    /\ Len(modifiers) = 1
    /\ modifiers[1].ignored /\ modifiers[1].enabled
    /\ ApplyStackingRules(modifiers) # modifiers

====
